---- MODULE Spec2Model ----
(***************************************************************************)
(* Model of BilibiliCommentManager (src/app.py): one pass of               *)
(* process_all_comments harvests the comments of a video page by page,     *)
(* puts every fetched item on violation_check_queue, a detector task       *)
(* checks each item against the violation words, updates violation_users   *)
(* and fills comment_queue / blacklist_queue; after queue.join() the       *)
(* ledger is saved and both queues are executed against the platform.      *)
(*                                                                         *)
(* asyncio is cooperative: a task runs without interruption between two    *)
(* awaits that really suspend (a network call, a sleep, a get on an empty  *)
(* queue, a join).  Each action below is one such uninterrupted stretch.   *)
(* put() on the unbounded asyncio.Queue never suspends.                    *)
(***************************************************************************)
EXTENDS Integers, Sequences, FiniteSets, TLC

VARIABLES
    violation_words,        \* self.violation_words              (app.py:54)
    max_pages,              \* max_pages handed to the pass      (app.py:490)
    violation_users,        \* self.violation_users, the ledger  (app.py:56)
    stored,                 \* what violation_users.json loads as (app.py:55, 84-92)
    comment_queue,          \* self.comment_queue                (app.py:57)
    blacklist_queue,        \* self.blacklist_queue              (app.py:58)
    violation_check_queue,  \* items of the asyncio.Queue        (app.py:59)
    unfinished,             \* the Queue's unfinished-task count (put / task_done / join)
    pc,                     \* position of process_all_comments / main
    npass,                  \* number of passes started
    violation_task,         \* the detector task of the current pass
    stale,                  \* detector tasks of earlier passes that were never cancelled
    harvest,                \* state of comments_task (get_comments)
    page,                   \* get_comments: page
    comments,               \* get_comments: comments
    spawn_i,                \* process_all_comments: position of "for cmt in comments"
    sub_tasks,              \* sub_comments_tasks: one record per _get_single_sub_comment task
    live,                   \* platform: ids of the comments that exist
    blocked,                \* platform: uids whose block call succeeded
    block_calls,            \* history: uids for which modify_relation was called
    delete_calls,           \* history: rpids for which Comment.delete was called
    emitted,                \* history: rpids in the order they were put on the queue
    processed,              \* history: rpids in the order the detector finished them
    remove_enq,             \* history: rpids in the order they were appended to comment_queue
    block_enq,              \* history: uids in the order they were appended to blacklist_queue
    pass_status,            \* history: how far the latest pass has come
    at_start                \* history: ledger and action queues when the latest pass started
\* The four sequences of history and delete_calls cover the time since the
\* latest start of a pass: StartPass drops what is older and settled.

vars == << violation_words, max_pages, violation_users, stored, comment_queue,
           blacklist_queue, violation_check_queue, unfinished, pc, npass,
           violation_task, stale, harvest, page, comments, spawn_i, sub_tasks,
           live, blocked, block_calls, delete_calls, emitted, processed,
           remove_enq, block_enq, pass_status, at_start >>

(***************************************************************************)
(* Program constants                                                       *)
(***************************************************************************)
AllowUid == 621240130
BlockThreshold == 3
Sentinel == 999
SubPageSize == 20

(***************************************************************************)
(* Bounds of the model                                                     *)
(***************************************************************************)
MaxPasses == 2
TopPageSize == 2

(***************************************************************************)
(* The platform's comments.  A comment is identified by its rpid; the      *)
(* table gives what the platform returns for it.  parent = 0 marks a       *)
(* top-level comment.  Bodies are sequences of characters.                 *)
(***************************************************************************)
OtherUids == << 1, 2 >>
U1 == OtherUids[1]
U2 == OtherUids[2]

BodyXY == << "x", "y" >>
BodyX == << "x" >>
BodyZ == << "z" >>

Cmt(mid, uname, content, parent) ==
    [mid |-> mid, uname |-> uname, content |-> content, parent |-> parent]

\* A thread: comment 6 with replies 7 .. 27, one more than a page of replies;
\* the first reply is by U1 and carries a violation word.
ThreadTop == 5 + 1
ThreadReplies == (ThreadTop + 1) .. (ThreadTop + SubPageSize + 1)

\* A top-level comment whose data lacks 'member' (data['member'] raises
\* KeyError at app.py:355).
BrokenTop == ThreadTop + SubPageSize + 2

Platform ==
    << Cmt(U1, "n1", BodyXY, 0),          \* 1
       Cmt(U1, "n1b", BodyXY, 0),         \* 2: U1 has changed its name
       Cmt(AllowUid, "op", BodyXY, 0),    \* 3
       Cmt(U2, "n2", BodyZ, 1),           \* 4: reply to 1
       Cmt(U2, "n2", BodyX, 2),           \* 5: reply to 2
       Cmt(U2, "n2", BodyZ, 0) >>         \* 6
    \o [i \in 1 .. SubPageSize + 1 |->
            IF i = 1 THEN Cmt(U1, "n1", BodyXY, ThreadTop)
                     ELSE Cmt(U2, "n2", BodyZ, ThreadTop)]
    \o << Cmt(U2, "n2", BodyZ, 0) >>     \* BrokenTop

Malformed == { BrokenTop }

Rpids == 1 .. Len(Platform)

\* what the video holds when the program starts
InitialLive ==
    { {1, 2, 3, 4, 5}, {ThreadTop} \cup ThreadReplies, {BrokenTop}, {} }

(***************************************************************************)
(* Violation words: a word is a regular expression.  A literal word        *)
(* matches the bodies that contain it; an invalid word makes re.search     *)
(* raise re.error.                                                         *)
(***************************************************************************)
Lit(s) == [valid |-> TRUE, lit |-> s]
BadWord == [valid |-> FALSE, lit |-> << >>]

WordLists ==
    { << Lit(<< "x" >>) >>,
      << Lit(<< "y" >>), BadWord, Lit(<< "x" >>) >> }

MaxPagesChoices == {0, 1, 3}

(***************************************************************************)
(* Ledgers a previous run can have left in violation_users.json.           *)
(***************************************************************************)
Rec(username, uid, n, rpids, contents) ==
    [username |-> username, uid |-> uid, violation_count |-> n,
     comment_rpids |-> rpids, comment_contents |-> contents]

InitialLedgers ==
    { << >>,
      << Rec("n1", U1, 2, << 101, 102 >>, << BodyX, BodyX >>),
         Rec("op", AllowUid, 2, << 103, 104 >>, << BodyX, BodyX >>) >> }

(***************************************************************************)
(* Helpers                                                                 *)
(***************************************************************************)
Range(s) == { s[i] : i \in 1 .. Len(s) }

Min(a, b) == IF a < b THEN a ELSE b

IsPrefix(s, t) == Len(s) <= Len(t) /\ SubSeq(t, 1, Len(s)) = s

\* re.search(word, content) for a literal word: word occurs in content
Contains(content, w) ==
    \E i \in 0 .. Len(content) :
        i + Len(w) <= Len(content) /\ SubSeq(content, i + 1, i + Len(w)) = w

\* variant: a word that cannot be evaluated is skipped
RECURSIVE CheckFrom_SkipInvalid(_, _, _)
CheckFrom_SkipInvalid(words, i, content) ==
    IF i > Len(words) THEN FALSE
    ELSE IF words[i].valid /\ Contains(content, words[i].lit) THEN TRUE
    ELSE CheckFrom_SkipInvalid(words, i + 1, content)

\* _check_violation: the words are tried in order; the first hit returns
\* True, an exception raised by re.search is caught and returns False.
RECURSIVE CheckFrom(_, _, _)
CheckFrom(words, i, content) ==
    IF i > Len(words) THEN FALSE
    ELSE IF ~words[i].valid THEN FALSE
    ELSE IF Contains(content, words[i].lit) THEN TRUE
    ELSE CheckFrom(words, i + 1, content)

CheckViolation(content) == CheckFrom(violation_words, 1, content)

\* variant: only the first record of the ledger is compared
FindUser_FirstOnly(users, uid) ==
    IF Len(users) > 0 /\ users[1].uid = uid THEN 1 ELSE 0

\* index of the first record of uid in the ledger, 0 when there is none
FindUser(users, uid) ==
    IF \E i \in 1 .. Len(users) : users[i].uid = uid
    THEN CHOOSE i \in 1 .. Len(users) :
            /\ users[i].uid = uid
            /\ \A j \in 1 .. i - 1 : users[j].uid # uid
    ELSE 0

\* variant: the body of a repeated violation is not appended
UpdateViolationUser_NoContent(users, username, uid, rpid, content) ==
    IF \E i \in 1 .. Len(users) : users[i].uid = uid
    THEN [i \in 1 .. Len(users) |->
            IF users[i].uid = uid
            THEN [users[i] EXCEPT !.violation_count = @ + 1,
                                  !.comment_rpids = Append(@, rpid)]
            ELSE users[i]]
    ELSE Append(users, [username |-> username, uid |-> uid, violation_count |-> 1,
                        comment_rpids |-> << rpid >>,
                        comment_contents |-> << content >>])

\* _update_violation_user, the ledger part
UpdateViolationUser(users, username, uid, rpid, content) ==
    LET i == FindUser(users, uid) IN
    IF i # 0
    THEN [users EXCEPT ![i] =
            [@ EXCEPT !.violation_count = @ + 1,
                      !.comment_rpids = Append(@, rpid),
                      !.comment_contents = Append(@, content)]]
    ELSE Append(users, Rec(username, uid, 1, << rpid >>, << content >>))

\* variant: the threshold test written as "at least"
ReachedThreshold_AtLeast(old, new, uid) ==
    LET user_index == IF \E i \in 1 .. Len(old) : old[i].uid = uid
                      THEN CHOOSE i \in 1 .. Len(old) : old[i].uid = uid
                      ELSE 0
        check_index == IF user_index = 0 THEN Len(new) ELSE user_index
    IN  new[check_index].violation_count >= BlockThreshold

\* _update_violation_user, the blacklist part: old is the ledger before the
\* update (it gives user_found / user_index), new the ledger after it
ReachedThreshold(old, new, uid) ==
    LET user_index == FindUser(old, uid)
        check_index == IF user_index = 0 THEN Len(new) ELSE user_index
    IN  new[check_index].violation_count = BlockThreshold

\* variant: every record gets the marker
MarkBlocked_Everyone(users, uid) ==
    [i \in 1 .. Len(users) |-> [users[i] EXCEPT !.violation_count = Sentinel]]

\* blacklist_user, the ledger part: the first record of uid gets the marker
MarkBlocked(users, uid) ==
    LET i == FindUser(users, uid) IN
    IF i # 0 THEN [users EXCEPT ![i].violation_count = Sentinel] ELSE users

\* variant: no exception list
IsExempt_Nobody(uid) == FALSE

\* variant: the exception list names another user
IsExempt_WrongUid(uid) == uid \in { OtherUids[1] }

\* blacklist_user: the hard-coded exception
IsExempt(uid) == uid \in { AllowUid }

(***************************************************************************)
(* Platform responses                                                      *)
(***************************************************************************)
TopLevel(lv) ==
    SelectSeq([i \in Rpids |-> i],
              LAMBDA r : r \in lv /\ Platform[r].parent = 0)

RepliesOf(lv, rpid) ==
    SelectSeq([i \in Rpids |-> i],
              LAMBDA r : r \in lv /\ Platform[r].parent = rpid)

PageOf(s, p, size) == SubSeq(s, (p - 1) * size + 1, Min(p * size, Len(s)))

\* the data of one top-level comment as comment.get_comments returns it
TopData(lv, r) ==
    [rpid |-> r, mid |-> Platform[r].mid, uname |-> Platform[r].uname,
     content |-> Platform[r].content, parent_rpid |-> 0,
     has_replies |-> RepliesOf(lv, r) # << >>,
     complete |-> r \notin Malformed]

\* the data of one reply as _get_single_sub_comment builds it
SubData(r, parent) ==
    [rpid |-> r, mid |-> Platform[r].mid, uname |-> Platform[r].uname,
     content |-> Platform[r].content, parent_rpid |-> parent,
     has_replies |-> FALSE, complete |-> TRUE]

QueueItem(type, data) == [type |-> type, data |-> data]

\* the ledger and the two action queues, as one value
Snapshot(users, removals, blocks) ==
    [users |-> users, removals |-> removals, blocks |-> blocks]

(***************************************************************************)
(* Initial state: the manager has been constructed, the ledger loaded.     *)
(***************************************************************************)
Init ==
    /\ violation_words \in WordLists
    /\ max_pages \in MaxPagesChoices
    /\ violation_users \in InitialLedgers
    /\ stored = violation_users
    /\ comment_queue = << >>
    /\ blacklist_queue = << >>
    /\ violation_check_queue = << >>
    /\ unfinished = 0
    /\ pc = "idle"
    /\ npass = 0
    /\ violation_task = "none"
    /\ stale = 0
    /\ harvest = "none"
    /\ page = 1
    /\ comments = << >>
    /\ spawn_i = 1
    /\ sub_tasks = << >>
    /\ live \in InitialLive
    /\ blocked = {}
    /\ block_calls = {}
    /\ delete_calls = << >>
    /\ emitted = << >>
    /\ processed = << >>
    /\ remove_enq = << >>
    /\ block_enq = << >>
    /\ pass_status = "none"
    /\ at_start = Snapshot(violation_users, << >>, << >>)

config_vars == << violation_words, max_pages >>
ledger_vars == << violation_users, comment_queue, blacklist_queue, remove_enq, block_enq >>
queue_vars == << violation_check_queue, unfinished, emitted >>
harvest_vars == << harvest, page, comments >>
platform_vars == << live, blocked, block_calls, delete_calls >>
hist_vars == << pass_status, at_start >>

(***************************************************************************)
(* main / process_all_comments: the start of a pass                        *)
(***************************************************************************)
\* app.py:488-492 and 388-394: the loop of main calls process_all_comments,
\* which creates the detector task and the task of get_comments.
StartPass ==
    /\ pc = "idle"
    /\ npass < MaxPasses
    /\ npass' = npass + 1
    /\ violation_task' = "running"
    /\ harvest' = "running"
    /\ UNCHANGED << page, comments, spawn_i, sub_tasks >>
    /\ pc' = "await_comments"
    /\ emitted' = [i \in 1 .. Len(violation_check_queue) |->
                       violation_check_queue[i].data.rpid]
    /\ processed' = << >>
    /\ remove_enq' = << >>
    /\ block_enq' = << >>
    /\ delete_calls' = << >>
    /\ pass_status' = "running"
    /\ at_start' = Snapshot(violation_users, comment_queue, blacklist_queue)
    /\ UNCHANGED << config_vars, violation_users, comment_queue, blacklist_queue,
                    violation_check_queue, unfinished, live, blocked,
                    block_calls, stored, stale >>

(***************************************************************************)
(* get_comments                                                            *)
(***************************************************************************)
\* the loop's exit test after a non-empty page (app.py:325-327)
PastLastPage(p) == p > max_pages

\* one round of the loop with a successful fetch (app.py:300-328)
FetchTopPage ==
    /\ harvest = "running"
    /\ LET replies == PageOf(TopLevel(live), page, TopPageSize) IN
       IF replies = << >>
       THEN /\ harvest' = "done"
            /\ UNCHANGED << page, comments, queue_vars >>
       ELSE /\ comments' = comments \o [i \in 1 .. Len(replies) |-> TopData(live, replies[i])]
            /\ violation_check_queue' = violation_check_queue \o
                   [i \in 1 .. Len(replies) |-> QueueItem("comment", TopData(live, replies[i]))]
            /\ unfinished' = unfinished + Len(replies)
            /\ emitted' = emitted \o replies
            /\ page' = page + 1
            /\ harvest' = IF PastLastPage(page + 1) THEN "done" ELSE "running"
    /\ UNCHANGED << config_vars, hist_vars, ledger_vars, platform_vars, stored, pc, npass,
                    violation_task, stale, spawn_i, sub_tasks, processed >>

\* the fetch raises: logged and re-raised (app.py:329-332)
FetchTopPageFails ==
    /\ harvest = "running"
    /\ harvest' = "failed"
    /\ UNCHANGED << config_vars, hist_vars, ledger_vars, queue_vars, platform_vars, stored,
                    pc, npass, violation_task, stale, page, comments, spawn_i,
                    sub_tasks, processed >>

(***************************************************************************)
(* process_all_comments: await comments_task                               *)
(***************************************************************************)
\* variant: a pass that fetched no comment ends at once
CommentsFetched_EmptyEndsPass ==
    /\ pc = "await_comments"
    /\ harvest = "done"
    /\ pc' = IF comments = << >> THEN "idle" ELSE "spawn"
    /\ UNCHANGED << config_vars, hist_vars, ledger_vars, queue_vars, harvest_vars,
                    platform_vars, stored, npass, violation_task, stale,
                    spawn_i, sub_tasks, processed >>

\* app.py:394: the task has returned its list
CommentsFetched ==
    /\ pc = "await_comments"
    /\ harvest = "done"
    /\ pc' = "spawn"
    /\ UNCHANGED << config_vars, hist_vars, ledger_vars, queue_vars, harvest_vars,
                    platform_vars, stored, npass, violation_task, stale,
                    spawn_i, sub_tasks, processed >>

\* variant: the failure is swallowed and the pass goes on with the comments
\* it has
CommentsFailed_GoesOn ==
    /\ pc = "await_comments"
    /\ harvest = "failed"
    /\ pc' = "spawn"
    /\ UNCHANGED << config_vars, hist_vars, ledger_vars, queue_vars, harvest_vars,
                    platform_vars, stored, npass, violation_task, stale,
                    spawn_i, sub_tasks, processed >>

\* app.py:394 and 444-446: the task's exception is raised at the await and
\* caught by the outer handler, which only logs: violation_task is not
\* cancelled and stays on the queue.
CommentsFailed ==
    /\ pc = "await_comments"
    /\ harvest = "failed"
    /\ pc' = "idle"
    /\ violation_task' = "none"
    /\ stale' = stale + (IF violation_task = "running" THEN 1 ELSE 0)
    /\ harvest' = "none"
    /\ page' = 1
    /\ comments' = << >>
    /\ pass_status' = "failed"
    /\ UNCHANGED << config_vars, at_start, ledger_vars, queue_vars, platform_vars, stored,
                    npass, spawn_i, sub_tasks, processed >>

(***************************************************************************)
(* process_all_comments: one _get_single_sub_comment task per comment      *)
(* that carries replies                                                    *)
(***************************************************************************)
NextWithReplies ==
    { j \in spawn_i .. Len(comments) :
        /\ comments[j].has_replies
        /\ \A k \in spawn_i .. j - 1 : ~comments[k].has_replies }

\* app.py:399-406: create the task of the next comment with replies, sleep
SpawnSub ==
    /\ pc = "spawn"
    /\ \E j \in NextWithReplies :
        /\ sub_tasks' = Append(sub_tasks,
                               [rpid |-> comments[j].rpid, page |-> 1, state |-> "running"])
        /\ spawn_i' = j + 1
    /\ UNCHANGED << config_vars, hist_vars, ledger_vars, queue_vars, harvest_vars,
                    platform_vars, stored, pc, npass, violation_task, stale,
                    processed >>

\* app.py:399: the for loop is exhausted
SpawnDone ==
    /\ pc = "spawn"
    /\ NextWithReplies = {}
    /\ pc' = "await_subs"
    /\ UNCHANGED << config_vars, hist_vars, ledger_vars, queue_vars, harvest_vars,
                    platform_vars, stored, npass, violation_task, stale,
                    spawn_i, sub_tasks, processed >>

\* variant: no page after the first one
FullPage_Never(replies) == FALSE

\* app.py:275: a full page asks for the next one
FullPage(replies) == Len(replies) = SubPageSize

\* _get_single_sub_comment, one round of its loop with a successful fetch
\* (app.py:238-278)
FetchSubPage(t) ==
    /\ sub_tasks[t].state = "running"
    /\ LET rpid == sub_tasks[t].rpid
           replies == PageOf(RepliesOf(live, rpid), sub_tasks[t].page, SubPageSize)
       IN
       IF replies = << >>
       THEN /\ sub_tasks' = [sub_tasks EXCEPT ![t].state = "done"]
            /\ UNCHANGED queue_vars
       ELSE /\ violation_check_queue' = violation_check_queue \o
                   [i \in 1 .. Len(replies) |->
                        QueueItem("sub_comment", SubData(replies[i], rpid))]
            /\ unfinished' = unfinished + Len(replies)
            /\ emitted' = emitted \o replies
            /\ sub_tasks' =
                   IF FullPage(replies)
                   THEN [sub_tasks EXCEPT ![t].page = @ + 1]
                   ELSE [sub_tasks EXCEPT ![t].state = "done"]
    /\ UNCHANGED << config_vars, hist_vars, ledger_vars, harvest_vars, platform_vars, stored,
                    pc, npass, violation_task, stale, spawn_i, processed >>

\* variant: the task that fails takes its items back from the queue
FetchSubPageFails_TakesBack(t) ==
    /\ sub_tasks[t].state = "running"
    /\ sub_tasks' = [sub_tasks EXCEPT ![t].state = "failed"]
    /\ violation_check_queue' =
           SelectSeq(violation_check_queue,
                     LAMBDA it : it.data.parent_rpid # sub_tasks[t].rpid)
    /\ unfinished' = unfinished - (Len(violation_check_queue) - Len(violation_check_queue'))
    /\ UNCHANGED << config_vars, hist_vars, ledger_vars, emitted, harvest_vars,
                    platform_vars, stored, pc, npass, violation_task, stale,
                    spawn_i, processed >>

\* the fetch raises: logged and re-raised (app.py:282-285)
FetchSubPageFails(t) ==
    /\ sub_tasks[t].state = "running"
    /\ sub_tasks' = [sub_tasks EXCEPT ![t].state = "failed"]
    /\ UNCHANGED << config_vars, hist_vars, ledger_vars, queue_vars, harvest_vars,
                    platform_vars, stored, pc, npass, violation_task, stale,
                    spawn_i, processed >>

\* variant: the wait ends as soon as one task has failed
AwaitSubs_EndsAtFailure ==
    /\ pc = "await_subs"
    /\ \/ \A t \in 1 .. Len(sub_tasks) : sub_tasks[t].state # "running"
       \/ \E t \in 1 .. Len(sub_tasks) : sub_tasks[t].state = "failed"
    /\ pc' = "join"
    /\ UNCHANGED << config_vars, hist_vars, ledger_vars, queue_vars, harvest_vars,
                    platform_vars, stored, npass, violation_task, stale,
                    spawn_i, sub_tasks, processed >>

\* app.py:408-418: every task is awaited in turn; an exception is logged
AwaitSubs ==
    /\ pc = "await_subs"
    /\ \A t \in 1 .. Len(sub_tasks) : sub_tasks[t].state # "running"
    /\ pc' = "join"
    /\ UNCHANGED << config_vars, hist_vars, ledger_vars, queue_vars, harvest_vars,
                    platform_vars, stored, npass, violation_task, stale,
                    spawn_i, sub_tasks, processed >>

(***************************************************************************)
(* process_all_comments: join, cancel, save                                *)
(***************************************************************************)
\* variant: no wait for the queue
JoinReturns_Always == TRUE

\* Queue.join returns when every put has been answered by a task_done
JoinReturns == unfinished = 0

\* app.py:421
Join ==
    /\ pc = "join"
    /\ JoinReturns
    /\ pc' = "cancel"
    /\ UNCHANGED << config_vars, hist_vars, ledger_vars, queue_vars, harvest_vars,
                    platform_vars, stored, npass, violation_task, stale,
                    spawn_i, sub_tasks, processed >>

\* app.py:424-428
CancelDetector ==
    /\ pc = "cancel"
    /\ violation_task' = "none"
    /\ pc' = "save"
    /\ UNCHANGED << config_vars, hist_vars, ledger_vars, queue_vars, harvest_vars,
                    platform_vars, stored, npass, stale, spawn_i, sub_tasks,
                    processed >>

\* _save_violation_users: the dump succeeds (app.py:109-112)
Save ==
    /\ pc = "save"
    /\ stored' = violation_users
    /\ pc' = "remove"
    /\ pass_status' = "saved"
    /\ UNCHANGED << config_vars, at_start, ledger_vars, queue_vars, harvest_vars,
                    platform_vars, npass, violation_task, stale, spawn_i,
                    sub_tasks, processed >>

\* variant: the error of the dump leaves process_all_comments
SaveFails_EndsPass ==
    /\ pc = "save"
    /\ stored' \in { stored, << >> }
    /\ pc' = "idle"
    /\ pass_status' = "save_failed"
    /\ UNCHANGED << config_vars, at_start, ledger_vars, queue_vars, harvest_vars,
                    platform_vars, npass, violation_task, stale,
                    spawn_i, sub_tasks, processed >>

\* _save_violation_users: open or dump raises, logged (app.py:113-115).
\* When open raises the file is untouched; when the dump raises the file
\* has been truncated by open(.., 'w') and loads as [] (app.py:89-92).
SaveFails ==
    /\ pc = "save"
    /\ stored' \in { stored, << >> }
    /\ pc' = "remove"
    /\ pass_status' = "save_failed"
    /\ UNCHANGED << config_vars, at_start, ledger_vars, queue_vars, harvest_vars,
                    platform_vars, npass, violation_task, stale,
                    spawn_i, sub_tasks, processed >>

(***************************************************************************)
(* process_all_comments: the two action loops                              *)
(***************************************************************************)
\* app.py:434-437 with delete_comment succeeding (app.py:188-196)
DeleteComment ==
    /\ pc = "remove"
    /\ comment_queue # << >>
    /\ LET rpid == Head(comment_queue) IN
        /\ rpid \in live
        /\ live' = live \ { rpid }
        /\ delete_calls' = Append(delete_calls, rpid)
    /\ comment_queue' = Tail(comment_queue)
    /\ UNCHANGED << config_vars, hist_vars, violation_users, blacklist_queue, remove_enq,
                    block_enq, queue_vars, harvest_vars, blocked, block_calls,
                    stored, pc, npass, violation_task, stale, spawn_i,
                    sub_tasks, processed >>

\* app.py:434-437 with the delete call raising (app.py:197-199)
DeleteCommentFails ==
    /\ pc = "remove"
    /\ comment_queue # << >>
    /\ delete_calls' = Append(delete_calls, Head(comment_queue))
    /\ comment_queue' = Tail(comment_queue)
    /\ UNCHANGED << config_vars, hist_vars, violation_users, blacklist_queue, remove_enq,
                    block_enq, queue_vars, harvest_vars, live, blocked,
                    block_calls, stored, pc, npass, violation_task, stale,
                    spawn_i, sub_tasks, processed >>

\* variant: the removal loop is left after one round
RemoveDone_Early ==
    /\ pc = "remove"
    /\ pc' = "block"
    /\ UNCHANGED << config_vars, hist_vars, ledger_vars, queue_vars, harvest_vars,
                    platform_vars, stored, npass, violation_task, stale,
                    spawn_i, sub_tasks, processed >>

\* app.py:434: comment_queue is empty
RemoveDone ==
    /\ pc = "remove"
    /\ comment_queue = << >>
    /\ pc' = "block"
    /\ UNCHANGED << config_vars, hist_vars, ledger_vars, queue_vars, harvest_vars,
                    platform_vars, stored, npass, violation_task, stale,
                    spawn_i, sub_tasks, processed >>

\* app.py:440-443 with blacklist_user succeeding (app.py:210-219)
BlacklistUser ==
    /\ pc = "block"
    /\ blacklist_queue # << >>
    /\ LET uid == Head(blacklist_queue) IN
        /\ ~IsExempt(uid)
        /\ block_calls' = block_calls \cup { uid }
        /\ blocked' = blocked \cup { uid }
        /\ violation_users' = MarkBlocked(violation_users, uid)
    /\ blacklist_queue' = Tail(blacklist_queue)
    /\ UNCHANGED << config_vars, hist_vars, comment_queue, remove_enq, block_enq,
                    queue_vars, harvest_vars, live, delete_calls, stored, pc,
                    npass, violation_task, stale, spawn_i, sub_tasks, processed >>

\* app.py:440-443 with modify_relation raising (app.py:220-222)
BlacklistUserFails ==
    /\ pc = "block"
    /\ blacklist_queue # << >>
    /\ LET uid == Head(blacklist_queue) IN
        /\ ~IsExempt(uid)
        /\ block_calls' = block_calls \cup { uid }
    /\ blacklist_queue' = Tail(blacklist_queue)
    /\ UNCHANGED << config_vars, hist_vars, violation_users, comment_queue, remove_enq,
                    block_enq, queue_vars, harvest_vars, live, blocked,
                    delete_calls, stored, pc, npass, violation_task, stale,
                    spawn_i, sub_tasks, processed >>

\* app.py:440-443 with the uid of the exception list (app.py:210): no call
BlacklistUserExempt ==
    /\ pc = "block"
    /\ blacklist_queue # << >>
    /\ IsExempt(Head(blacklist_queue))
    /\ blacklist_queue' = Tail(blacklist_queue)
    /\ UNCHANGED << config_vars, hist_vars, violation_users, comment_queue, remove_enq,
                    block_enq, queue_vars, harvest_vars, platform_vars, stored,
                    pc, npass, violation_task, stale, spawn_i, sub_tasks,
                    processed >>

\* app.py:440: blacklist_queue is empty, the pass returns; main sleeps
BlockDone ==
    /\ pc = "block"
    /\ blacklist_queue = << >>
    /\ pc' = "idle"
    /\ harvest' = "none"
    /\ page' = 1
    /\ comments' = << >>
    /\ spawn_i' = 1
    /\ sub_tasks' = << >>
    /\ UNCHANGED << config_vars, hist_vars, ledger_vars, queue_vars, platform_vars, stored,
                    npass, violation_task, stale, processed >>

(***************************************************************************)
(* _process_violations: the detector                                       *)
(***************************************************************************)
\* variant: the newest item is handed out
GetIndex_Newest(q) == Len(q)

\* Queue.get hands out the oldest item: the position it takes from
GetIndex(q) == 1

RemoveAt(q, i) == SubSeq(q, 1, i - 1) \o SubSeq(q, i + 1, Len(q))

\* app.py:344-376: a detector task that is alive takes one item and handles
\* it up to task_done without suspending (_check_violation and
\* _update_violation_user never suspend).
Detect ==
    /\ violation_task = "running" \/ stale > 0
    /\ violation_check_queue # << >>
    /\ violation_check_queue[GetIndex(violation_check_queue)].data.complete
    /\ LET item == violation_check_queue[GetIndex(violation_check_queue)]
           content == item.data.content
           username == item.data.uname
           uid == item.data.mid
           rpid == item.data.rpid
           updated == UpdateViolationUser(violation_users, username, uid, rpid, content)
       IN
        /\ violation_check_queue' =
               RemoveAt(violation_check_queue, GetIndex(violation_check_queue))
        /\ IF CheckViolation(content)
           THEN /\ violation_users' = updated
                /\ IF ReachedThreshold(violation_users, updated, uid)
                   THEN /\ blacklist_queue' = Append(blacklist_queue, uid)
                        /\ block_enq' = Append(block_enq, uid)
                   ELSE UNCHANGED << blacklist_queue, block_enq >>
                /\ comment_queue' = Append(comment_queue, rpid)
                /\ remove_enq' = Append(remove_enq, rpid)
           ELSE UNCHANGED ledger_vars
        /\ unfinished' = unfinished - 1
        /\ processed' = Append(processed, rpid)
    /\ UNCHANGED << config_vars, hist_vars, emitted, harvest_vars, platform_vars, stored,
                    pc, npass, violation_task, stale, spawn_i, sub_tasks >>

\* app.py:347, 353-356 and 377-379: the item taken is a top-level comment
\* whose data lacks a key; the KeyError leaves the loop through the outer
\* handler, which only logs.  The task that took the item ends, task_done
\* is not called for it.
DetectRaises ==
    /\ violation_check_queue # << >>
    /\ ~ violation_check_queue[GetIndex(violation_check_queue)].data.complete
    /\ \/ /\ violation_task = "running"
          /\ violation_task' = "done"
          /\ UNCHANGED stale
       \/ /\ stale > 0
          /\ stale' = stale - 1
          /\ UNCHANGED violation_task
    /\ violation_check_queue' =
           RemoveAt(violation_check_queue, GetIndex(violation_check_queue))
    /\ UNCHANGED << config_vars, hist_vars, ledger_vars, unfinished, emitted,
                    harvest_vars, platform_vars, stored, pc, npass, spawn_i,
                    sub_tasks, processed >>

Next ==
    \/ StartPass
    \/ FetchTopPage
    \/ FetchTopPageFails
    \/ CommentsFetched
    \/ CommentsFailed
    \/ SpawnSub
    \/ SpawnDone
    \/ \E t \in 1 .. Len(sub_tasks) : FetchSubPage(t)
    \/ \E t \in 1 .. Len(sub_tasks) : FetchSubPageFails(t)
    \/ AwaitSubs
    \/ Join
    \/ CancelDetector
    \/ Save
    \/ SaveFails
    \/ DeleteComment
    \/ DeleteCommentFails
    \/ RemoveDone
    \/ BlacklistUser
    \/ BlacklistUserFails
    \/ BlacklistUserExempt
    \/ BlockDone
    \/ Detect
    \/ DetectRaises

Spec == Init /\ [][Next]_vars

(***************************************************************************)
(* Properties                                                              *)
(***************************************************************************)
AllUids == { Platform[r].mid : r \in Rpids }

\* violation_count of uid's record, 0 when the ledger has none
Count(users, uid) ==
    IF FindUser(users, uid) = 0 THEN 0
    ELSE users[FindUser(users, uid)].violation_count

Occurrences(s, x) == Cardinality({ i \in 1 .. Len(s) : s[i] = x })

\* C1: a step appends a uid to the block queue if and only if that step
\* records a violation that takes the user's count to exactly 3 (from 2);
\* a step that takes the count to 4 or more, or past the marker, appends
\* nothing.
C1_BlockIffCountBecomesThree ==
    [][ \A u \in AllUids :
            (blacklist_queue' = Append(blacklist_queue, u))
            <=> ( /\ Count(violation_users', u) = BlockThreshold
                  /\ Count(violation_users, u) # BlockThreshold ) ]_vars

\* a user with 2 earlier violations has violated twice more: the count is 4
\* and one block action was queued
C1_Witness ==
    /\ Count(violation_users, U1) = BlockThreshold + 1
    /\ Occurrences(block_enq, U1) = 1
    /\ Occurrences(remove_enq, 1) = 1
    /\ Occurrences(remove_enq, 2) = 1

\* C2: the count of a user equals the number of violations recorded for it
\* until the block is carried out, and is the marker 999 ever after.
C2_CountIsNThenSentinel ==
    \A i \in 1 .. Len(violation_users) :
        IF violation_users[i].uid \in blocked
        THEN violation_users[i].violation_count = Sentinel
        ELSE violation_users[i].violation_count = Len(violation_users[i].comment_rpids)

\* C3 as stated: the block queue never holds the exempt uid.
C3_QueueNeverHoldsExempt ==
    \A i \in 1 .. Len(blacklist_queue) : blacklist_queue[i] # AllowUid

\* C3 amended: the exempt uid can be queued, but the step that takes it off
\* the block queue calls nothing on the platform and changes no record.
C3_ExemptIsDroppedFromQueue ==
    [][ ( /\ blacklist_queue # << >>
          /\ Head(blacklist_queue) = AllowUid
          /\ blacklist_queue' = Tail(blacklist_queue) )
        => UNCHANGED << blocked, block_calls, violation_users >> ]_vars

\* the exempt uid reached count 3, was queued in this pass and has been
\* taken off the queue by the block loop
C3_Witness ==
    /\ pc = "block"
    /\ Occurrences(block_enq, AllowUid) = 1
    /\ Occurrences(blacklist_queue, AllowUid) = 0
    /\ Count(violation_users, AllowUid) = BlockThreshold

\* C4: no block call is ever issued for the exempt uid and its record never
\* carries the marker 999.
C4_ExemptNeverBlocked ==
    /\ AllowUid \notin block_calls
    /\ AllowUid \notin blocked
    /\ Count(violation_users, AllowUid) # Sentinel

\* a pass in which the exempt uid was queued for blocking has ended
C4_Witness ==
    /\ pc = "idle"
    /\ npass > 0
    /\ Occurrences(block_enq, AllowUid) = 1
    /\ blacklist_queue = << >>
    /\ Count(violation_users, AllowUid) >= BlockThreshold

\* some violation word occurs in the body
MatchesSomeWord(content) ==
    \E i \in 1 .. Len(violation_words) :
        violation_words[i].valid /\ Contains(content, violation_words[i].lit)

\* some violation word occurs in the body and every word before it in the
\* list can be evaluated
MatcherAccepts(content) ==
    \E i \in 1 .. Len(violation_words) :
        /\ violation_words[i].valid
        /\ Contains(content, violation_words[i].lit)
        /\ \A j \in 1 .. i - 1 : violation_words[j].valid

\* C5 as stated: the removal queue received, in the order of consumption, one
\* entry for every consumed item whose body matches some violation word, and
\* none for the others.
C5_RemovalIffSomeWordMatches ==
    remove_enq = SelectSeq(processed, LAMBDA r : MatchesSomeWord(Platform[r].content))

\* C5 amended: ... one entry for every consumed item the matcher accepts
\* (some word matches and no word before it in the list fails to evaluate).
C5_RemovalIffMatcherAccepts ==
    remove_enq = SelectSeq(processed, LAMBDA r : MatcherAccepts(Platform[r].content))

\* with a word list holding an invalid word: a matching comment was queued
\* for removal, a reply that only the word after the invalid one matches and
\* a reply that matches nothing were consumed without an entry
C5_Witness ==
    /\ \E i \in 1 .. Len(violation_words) : ~violation_words[i].valid
    /\ { 2, 4, 5 } \subseteq Range(processed)
    /\ Occurrences(remove_enq, 2) = 1
    /\ Occurrences(remove_enq, 4) = 0
    /\ Occurrences(remove_enq, 5) = 0

\* the step consumes item r and the matcher accepts it: RecordViolation is
\* called with r's author, name, id and body
Recorded(r) ==
    /\ processed' = Append(processed, r)
    /\ MatcherAccepts(Platform[r].content)

\* C6: RecordViolation on a user without record appends a record with count 1
\* and the one id/body pair; on a user with a record it adds 1 to the count
\* and appends id and body; every other record is unchanged and the two
\* sequences of the touched record have the same length.
C6_RecordViolationEffect ==
    [][ \A r \in Rpids : Recorded(r) =>
          LET uid == Platform[r].mid
              body == Platform[r].content
              old == violation_users
              new == violation_users'
          IN  IF \A i \in 1 .. Len(old) : old[i].uid # uid
              THEN new = Append(old, Rec(Platform[r].uname, uid, 1, << r >>, << body >>))
              ELSE /\ Len(new) = Len(old)
                   /\ \A i \in 1 .. Len(old) :
                        IF old[i].uid = uid
                        THEN /\ new[i].uid = uid
                             /\ new[i].violation_count = old[i].violation_count + 1
                             /\ new[i].comment_rpids = Append(old[i].comment_rpids, r)
                             /\ new[i].comment_contents = Append(old[i].comment_contents, body)
                             /\ Len(new[i].comment_rpids) = Len(new[i].comment_contents)
                        ELSE new[i] = old[i] ]_vars

\* three users have a record, one created in this pass by reply 5 and one
\* that was incremented twice
C6_Witness ==
    /\ Len(violation_users) = 3
    /\ Count(violation_users, U2) = 1
    /\ Count(violation_users, U1) = 4
    /\ Occurrences(processed, 5) = 1

\* C7: after a RecordViolation call the record carries the username of the call.
C7_UsernameIsLatest ==
    [][ \A r \in Rpids : Recorded(r) =>
          LET i == FindUser(violation_users', Platform[r].mid)
          IN  i # 0 /\ violation_users'[i].username = Platform[r].uname ]_vars

\* C8: the ledger holds at most one record per uid.
C8_OneRecordPerUid ==
    \A i, j \in 1 .. Len(violation_users) :
        violation_users[i].uid = violation_users[j].uid => i = j

\* three users have a record and one of them was hit again after its record
\* had been created
C8_Witness ==
    /\ Len(violation_users) = 3
    /\ \E i \in 1 .. Len(violation_users) :
          /\ violation_users[i].violation_count >= 2
          /\ Len(violation_users[i].comment_rpids) >= 2
          /\ violation_users[i].comment_rpids[Len(violation_users[i].comment_rpids)] \in Rpids

\* C9: when the pass is about to save the ledger, every producer has ended,
\* the queue is empty, and every emitted item has been handled up to its
\* task_done: the ledger holds it and the removal queue received it if the
\* matcher accepts it.
C9_DrainedBeforeSave ==
    pc = "save" =>
        /\ harvest = "done"
        /\ \A t \in 1 .. Len(sub_tasks) : sub_tasks[t].state # "running"
        /\ violation_check_queue = << >>
        /\ unfinished = 0
        /\ processed = emitted
        /\ \A i \in 1 .. Len(emitted) :
              MatcherAccepts(Platform[emitted[i]].content) =>
                  /\ emitted[i] \in Range(remove_enq)
                  /\ \E k \in 1 .. Len(violation_users) :
                        /\ violation_users[k].uid = Platform[emitted[i]].mid
                        /\ emitted[i] \in Range(violation_users[k].comment_rpids)

\* a pass with two reply tasks and five emitted items is about to save
C9_Witness ==
    /\ pc = "save"
    /\ Len(sub_tasks) = 2
    /\ Len(emitted) = 5
    /\ Len(remove_enq) >= 3

IsSuffix(s, t) ==
    Len(s) <= Len(t) /\ SubSeq(t, Len(t) - Len(s) + 1, Len(t)) = s

RECURSIVE IsSubseq(_, _)
IsSubseq(s, t) ==
    IF s = << >> THEN TRUE
    ELSE IF t = << >> THEN FALSE
    ELSE IF Head(s) = Head(t) THEN IsSubseq(Tail(s), Tail(t))
    ELSE IsSubseq(s, Tail(t))

AllProcessed(s) == \A i \in 1 .. Len(s) : s[i] \in Range(processed)

\* C11: when the pass comes to save, every comment that carries replies has
\* had its task, and every task that did not fail has fetched all replies
\* of its comment and the detector has handled each of them - whatever
\* happened to the other tasks.
C11_OtherRepliesStillProcessed ==
    pc \in {"cancel", "save"} =>
        \A j \in 1 .. Len(comments) :
            comments[j].has_replies =>
                \E t \in 1 .. Len(sub_tasks) :
                    /\ sub_tasks[t].rpid = comments[j].rpid
                    /\ \/ sub_tasks[t].state = "failed"
                       \/ /\ sub_tasks[t].state = "done"
                          /\ AllProcessed(RepliesOf(live, comments[j].rpid))

\* one task failed, the reply fetched by another one has been removed, and
\* the pass has saved
C11_Witness ==
    /\ pass_status = "saved"
    /\ \E t \in 1 .. Len(sub_tasks) : sub_tasks[t].state = "failed"
    /\ \E t \in 1 .. Len(sub_tasks) :
          /\ sub_tasks[t].state = "done"
          /\ \E i \in 1 .. Len(delete_calls) :
                Platform[delete_calls[i]].parent = sub_tasks[t].rpid

\* the ledger holds comment r under its author
InLedger(r) ==
    \E k \in 1 .. Len(violation_users) :
        /\ violation_users[k].uid = Platform[r].mid
        /\ r \in Range(violation_users[k].comment_rpids)

\* the replies a task has put on the queue before the page it is at
FetchedBefore(t) ==
    LET rs == RepliesOf(live, sub_tasks[t].rpid)
    IN  SubSeq(rs, 1, Min((sub_tasks[t].page - 1) * SubPageSize, Len(rs)))

\* C12 as stated: no reply of a comment whose task failed is handled by the
\* detector.
C12_PartialResultsDiscarded ==
    \A t \in 1 .. Len(sub_tasks) :
        sub_tasks[t].state = "failed" =>
            \A i \in 1 .. Len(processed) :
                Platform[processed[i]].parent # sub_tasks[t].rpid

\* C12, amended: a task that fails on some page has put the replies of its
\* earlier pages on the queue and nothing else; when the pass comes to save
\* the detector has handled each of them, and those that match a word are
\* in the removal queue and in the ledger.
C12_EarlierPagesAreProcessed ==
    pc \notin {"remove", "block"} =>
        \A t \in 1 .. Len(sub_tasks) :
            sub_tasks[t].state = "failed" =>
                LET rs == RepliesOf(live, sub_tasks[t].rpid)
                    before == FetchedBefore(t)
                IN  /\ \A i \in 1 .. Len(rs) :
                          rs[i] \in Range(emitted) <=> i <= Len(before)
                    /\ pc \in {"cancel", "save"} =>
                          /\ AllProcessed(before)
                          /\ \A i \in 1 .. Len(before) :
                                MatcherAccepts(Platform[before[i]].content) =>
                                    /\ before[i] \in Range(comment_queue)
                                    /\ InLedger(before[i])

\* the task of the thread failed on its second page, the violating reply of
\* the first page has been removed
C12_Witness ==
    /\ \E t \in 1 .. Len(sub_tasks) :
          /\ sub_tasks[t].state = "failed"
          /\ sub_tasks[t].page > 1
          /\ \E i \in 1 .. Len(delete_calls) :
                Platform[delete_calls[i]].parent = sub_tasks[t].rpid

\* the steps a pass may take from a position of process_all_comments
\* (app.py:388-446)
Follows(a, b) ==
    \/ a = b
    \/ a = "idle" /\ b = "await_comments"
    \/ a = "await_comments" /\ b \in {"spawn", "idle"}
    \/ a = "spawn" /\ b = "await_subs"
    \/ a = "await_subs" /\ b = "join"
    \/ a = "join" /\ b = "cancel"
    \/ a = "cancel" /\ b = "save"
    \/ a = "save" /\ b = "remove"
    \/ a = "remove" /\ b = "block"
    \/ a = "block" /\ b = "idle"

\* C13: from the start of a pass to the end of the fetch of the top-level
\* pages no reply task exists, nothing is saved and no call to remove or to
\* block is made, and once a page fetch has failed the pass can only end.
C13_TopLevelFailureAbortsPass ==
    /\ [](pc = "await_comments" => sub_tasks = << >> /\ delete_calls = << >>)
    /\ [](harvest = "failed" => pc = "await_comments")
    /\ [][pc = "await_comments" =>
            /\ UNCHANGED << stored, sub_tasks, delete_calls, block_calls,
                            blocked, live >>
            /\ harvest = "failed" => /\ pc' \in {"await_comments", "idle"}
                                     /\ harvest' \in {"failed", "none"}
                                     /\ pc' = "idle" => pass_status' = "failed"]_vars

\* a pass has failed on its second page, after the first page was emitted
C13_Witness ==
    /\ pc = "idle"
    /\ pass_status = "failed"
    /\ Len(emitted) = TopPageSize
    /\ sub_tasks = << >>
    /\ delete_calls = << >>
    /\ stored = at_start.users

\* C14: a pass that has started always has a next step to take until the
\* orchestrator is back at idle: no failure leaves it waiting for something
\* that cannot happen.
C14_PassAlwaysEnds == pc = "idle" \/ ENABLED Next

(***************************************************************************)
(* A pass over a video without comments                                    *)
(***************************************************************************)
\* get_comments has returned, and returned nothing: its first page was empty
EmptyHarvest == harvest = "done" /\ comments = << >>

\* C15: in a pass whose first page is empty nothing is put on the queue, the
\* join finds nothing to wait for, no reply task is made, the ledger and the
\* two action queues stay as they were at the start of the pass, no call is
\* made to the platform, and the pass walks through cancel, save and the
\* two empty loops back to idle.
C15_EmptyHarvestPass ==
    /\ [](EmptyHarvest =>
            /\ emitted = << >>
            /\ violation_check_queue = << >>
            /\ JoinReturns
            /\ sub_tasks = << >>
            /\ Snapshot(violation_users, comment_queue, blacklist_queue) = at_start
            /\ remove_enq = << >> /\ block_enq = << >>
            /\ delete_calls = << >>
            /\ pc # "idle"
            /\ ENABLED Next)
    /\ [][EmptyHarvest =>
            /\ UNCHANGED << violation_users, comment_queue, blacklist_queue,
                            live, blocked, block_calls, stale >>
            /\ Follows(pc, pc')
            /\ pc = "await_comments" => pc' # "idle"
            /\ pc' = "idle" => pass_status \in {"saved", "save_failed"}]_vars

\* the pass over the empty video has saved and is in its block loop
C15_Witness ==
    /\ EmptyHarvest
    /\ pc = "block"
    /\ pass_status = "saved"
    /\ violation_users # << >>
    /\ stored = violation_users

(***************************************************************************)
(* The saved ledger                                                        *)
(***************************************************************************)
\* C16: when a pass that saved has come back to idle, the file holds the
\* ledger that is in memory, the 999 of the users blocked in the pass
\* included.
C16_StoreEqualsLedgerAfterPass ==
    (pc = "idle" /\ pass_status = "saved") => stored = violation_users


(***************************************************************************)
(* Tasks across passes                                                     *)
(***************************************************************************)
Detectors == (IF violation_task = "running" THEN 1 ELSE 0) + stale

\* C17: there is never more than one detector task, and between two passes
\* no task of a pass is alive: no detector, no get_comments, no reply task.
C17_DetectorStoppedAtPassEnd ==
    /\ Detectors <= 1
    /\ pc = "idle" =>
          /\ Detectors = 0
          /\ harvest # "running"
          /\ \A t \in 1 .. Len(sub_tasks) : sub_tasks[t].state # "running"

(***************************************************************************)
(* Detection of a comment that is already in the ledger                    *)
(***************************************************************************)
\* C18: a step in which the detector handles a comment that the ledger
\* already holds under its author leaves the ledger as it is.
C18_RedetectionIdempotent ==
    [][\A r \in Rpids :
          (processed' = Append(processed, r) /\ InLedger(r))
              => UNCHANGED violation_users]_vars

(***************************************************************************)
(* The order of the stages of a pass                                       *)
(***************************************************************************)
NoTaskRunning ==
    /\ harvest # "running"
    /\ \A t \in 1 .. Len(sub_tasks) : sub_tasks[t].state # "running"

\* C19: process_all_comments goes through its stages in one order.  The
\* save and everything after it find every harvest task finished, the queue
\* empty and answered, and the detector of the pass stopped; no item is
\* emitted or handled from then on.  No comment is removed and nobody is
\* blocked before the save was tried; the file is written only in the save
\* stage; comments are removed only in the removal loop, users are blocked
\* only in the block loop, which starts when the removal queue is empty and
\* stays empty.
C19_StagesInOrder ==
    /\ [](pc \in {"save", "remove", "block"} =>
            /\ NoTaskRunning
            /\ violation_check_queue = << >>
            /\ JoinReturns
            /\ violation_task = "none")
    /\ [](pc \in {"remove", "block"} => pass_status \in {"saved", "save_failed"})
    /\ [](pc \notin {"remove", "block", "idle"} => delete_calls = << >>)
    /\ [](pc = "block" => comment_queue = << >>)
    /\ [][/\ Follows(pc, pc')
          /\ stored' # stored => pc = "save"
          /\ (delete_calls' # delete_calls \/ live' # live) =>
                 pc = "remove" \/ (pc = "idle" /\ delete_calls' = << >>)
          /\ (block_calls' # block_calls \/ blocked' # blocked) => pc = "block"
          /\ pc \in {"save", "remove", "block"} =>
                 UNCHANGED << emitted, processed, violation_check_queue,
                              remove_enq, block_enq >>]_vars

\* the block loop has blocked a user after the removal loop removed the
\* user's comments, the ledger being saved
C19_Witness ==
    /\ pc = "block"
    /\ pass_status = "saved"
    /\ Len(delete_calls) >= 2
    /\ blocked # {}

(***************************************************************************)
(* What a failed pass leaves behind                                        *)
(***************************************************************************)
\* C20: when a pass has failed at the fetch of a top-level page, the ledger
\* and the two action queues are what they were when the pass started.
C20_FailedPassLeavesNoTrace ==
    (pc = "idle" /\ pass_status = "failed") =>
        Snapshot(violation_users, comment_queue, blacklist_queue) = at_start

(***************************************************************************)
(* The save that fails                                                     *)
(***************************************************************************)
\* the removals and blocks a pass has to execute: what it found in the two
\* queues and what the detector has appended since
DueRemovals == at_start.removals \o remove_enq
DueBlocks == at_start.blocks \o block_enq

\* C21: the step of the save, failing or not, changes neither the ledger in
\* memory nor the two action queues and leads to the removal loop; a pass
\* whose save failed comes back to idle with both queues empty, a removal
\* call made for every queued id and a block call made for every queued
\* uid but the exempt one.
C21_SaveFailureDoesNotAbort ==
    /\ [][pc = "save" =>
            /\ UNCHANGED << violation_users, comment_queue, blacklist_queue >>
            /\ pc' \in {"save", "remove"}]_vars
    /\ []((pc = "idle" /\ pass_status = "save_failed") =>
            /\ comment_queue = << >>
            /\ blacklist_queue = << >>
            /\ delete_calls = DueRemovals
            /\ \A i \in 1 .. Len(DueBlocks) :
                  DueBlocks[i] \in block_calls \/ IsExempt(DueBlocks[i]))

\* a pass whose save failed has removed two comments and blocked a user
C21_Witness ==
    /\ pc = "idle"
    /\ pass_status = "save_failed"
    /\ stored # violation_users
    /\ Len(delete_calls) >= 2
    /\ blocked # {}

(***************************************************************************)
(* The removal loop                                                        *)
(***************************************************************************)
\* C22: when the removal loop has ended the removal queue is empty, the
\* calls were made in the order of the queue, one call for each id that was
\* queued - failed calls included, none of them repeated.
C22_OneRemovalCallPerQueuedId ==
    pc = "block" =>
        /\ comment_queue = << >>
        /\ delete_calls = DueRemovals
        /\ \A r \in Range(DueRemovals) : Occurrences(delete_calls, r) = 1

(***************************************************************************)
(* The block loop                                                          *)
(***************************************************************************)
\* C23: a round of the block loop for uid whose call succeeds sets the count
\* of uid's record to 999 and changes nothing else in the ledger, and
\* marking uid once more changes nothing at all; a round whose call fails,
\* or that makes no call, leaves the ledger as it is.
C23_BlockRoundEffect ==
    [][(pc = "block" /\ blacklist_queue # << >> /\
        blacklist_queue' = Tail(blacklist_queue)) =>
          LET uid == Head(blacklist_queue) IN
          IF blocked' # blocked
          THEN /\ blocked' = blocked \cup { uid }
               /\ Len(violation_users') = Len(violation_users)
               /\ \A k \in 1 .. Len(violation_users) :
                     IF violation_users[k].uid = uid
                     THEN violation_users'[k] =
                              [violation_users[k] EXCEPT !.violation_count = Sentinel]
                     ELSE violation_users'[k] = violation_users[k]
               /\ MarkBlocked(violation_users', uid) = violation_users'
          ELSE UNCHANGED violation_users]_vars

\* a user has been blocked and carries the marker, next to a record that
\* does not
C23_Witness ==
    /\ pc = "block"
    /\ \E k \in 1 .. Len(violation_users) :
          /\ violation_users[k].uid \in blocked
          /\ violation_users[k].violation_count = Sentinel
    /\ \E k \in 1 .. Len(violation_users) :
          violation_users[k].violation_count # Sentinel

\* the users for whom a block call was made and failed
BlockFailed == block_calls \ blocked

\* C24: a step in which the detector records a violating comment of a user
\* whose block call has failed appends that user to the block queue again.
C24_FailedBlockIsQueuedAgain ==
    [][\A r \in Rpids :
          (Recorded(r) /\ Platform[r].mid \in BlockFailed)
              => /\ blacklist_queue' = Append(blacklist_queue, Platform[r].mid)
                 /\ block_enq' = Append(block_enq, Platform[r].mid)]_vars

(***************************************************************************)
(* The harvest                                                             *)
(***************************************************************************)
\* C25: while get_comments runs and when it has returned, the pages it has
\* fetched are pages 1, 2, .. of the video, not more than max_pages of
\* them, and its comments are the comments of these pages in their order,
\* each put on the queue once.
C25_AtMostMaxPagesFetched ==
    pc = "await_comments" =>
        LET top == TopLevel(live) IN
        /\ page - 1 <= max_pages
        /\ Len(comments) = Min((page - 1) * TopPageSize, Len(top))
        /\ comments = [i \in 1 .. Len(comments) |-> TopData(live, top[i])]
        /\ IsSuffix([i \in 1 .. Len(comments) |-> comments[i].rpid], emitted)

\* the replies of comment rpid that were put on the queue
EmittedRepliesOf(rpid) ==
    SelectSeq(emitted, LAMBDA r : Platform[r].parent = rpid)

\* C26: every reply item on the queue carries the id of its parent; reply
\* tasks exist only for fetched comments that carry replies, one each; and
\* when all tasks have ended and none has failed, each such comment has its
\* task and has yielded all its replies, page after page, each once.
C26_AllRepliesOfMarkedComments ==
    /\ \A i \in 1 .. Len(violation_check_queue) :
          violation_check_queue[i].type = "sub_comment" =>
              /\ violation_check_queue[i].data.parent_rpid # 0
              /\ violation_check_queue[i].data.parent_rpid =
                     Platform[violation_check_queue[i].data.rpid].parent
    /\ \A t \in 1 .. Len(sub_tasks) :
          /\ \E j \in 1 .. Len(comments) :
                comments[j].rpid = sub_tasks[t].rpid /\ comments[j].has_replies
          /\ \A u \in 1 .. Len(sub_tasks) :
                sub_tasks[u].rpid = sub_tasks[t].rpid => u = t
    /\ (/\ pc \in {"join", "cancel", "save"}
        /\ \A t \in 1 .. Len(sub_tasks) : sub_tasks[t].state = "done") =>
          \A j \in 1 .. Len(comments) :
              /\ comments[j].has_replies <=>
                     \E t \in 1 .. Len(sub_tasks) : sub_tasks[t].rpid = comments[j].rpid
              /\ EmittedRepliesOf(comments[j].rpid) = RepliesOf(live, comments[j].rpid)

\* the thread of more than one page of replies has been fetched whole
C26_Witness ==
    /\ pc = "save"
    /\ \E t \in 1 .. Len(sub_tasks) :
          /\ sub_tasks[t].state = "done"
          /\ sub_tasks[t].page > 1
          /\ Len(EmittedRepliesOf(sub_tasks[t].rpid)) = SubPageSize + 1

(***************************************************************************)
(* The sequential variant (src/new.py): one pass without a failure of the  *)
(* platform, as a function of what the video holds, the words, max_pages   *)
(* and the ledger.                                                         *)
(***************************************************************************)
\* new.py get_comments (258-295): pages from p on, mp = max_pages
RECURSIVE SeqTopFrom(_, _, _, _)
SeqTopFrom(top, p, mp, acc) ==
    LET replies == PageOf(top, p, TopPageSize) IN
    IF replies = << >> THEN acc
    ELSE IF p + 1 > mp THEN acc \o replies
    ELSE SeqTopFrom(top, p + 1, mp, acc \o replies)

\* new.py _get_single_sub_comment (207-256): the next page is asked for when
\* the list gathered so far has exactly 20 entries
RECURSIVE SeqSubFrom(_, _, _)
SeqSubFrom(rs, p, all) ==
    LET replies == PageOf(rs, p, SubPageSize) IN
    IF replies = << >> THEN all
    ELSE IF Len(all \o replies) = SubPageSize
         THEN SeqSubFrom(rs, p + 1, all \o replies)
         ELSE all \o replies

\* new.py process_all_comments (308-316): the replies of the comments that
\* carry replies, in the order of the comments
RECURSIVE SeqSubComments(_, _)
SeqSubComments(lv, cs) ==
    IF cs = << >> THEN << >>
    ELSE (IF RepliesOf(lv, Head(cs)) # << >>
          THEN SeqSubFrom(RepliesOf(lv, Head(cs)), 1, << >>)
          ELSE << >>)
         \o SeqSubComments(lv, Tail(cs))

\* new.py process_all_comments (322-348): the two detection loops over a
\* list of rpids; st holds the ledger and the two action queues.  A
\* top-level comment without 'member' raises at 325 and ends the pass.
RECURSIVE SeqDetect(_, _, _)
SeqDetect(words, rs, st) ==
    IF rs = << >> \/ st.raised THEN st
    ELSE LET r == Head(rs)
             c == Platform[r]
             updated == UpdateViolationUser(st.users, c.uname, c.mid, r, c.content)
         IN
         IF r \in Malformed
         THEN [st EXCEPT !.raised = TRUE]
         ELSE IF CheckFrom(words, 1, c.content)
         THEN SeqDetect(words, Tail(rs),
                  [st EXCEPT
                     !.users = updated,
                     !.blocks = IF ReachedThreshold(st.users, updated, c.mid)
                                THEN Append(@, c.mid) ELSE @,
                     !.removals = Append(@, r)])
         ELSE SeqDetect(words, Tail(rs), st)

\* new.py blacklist_user (186-205), every call succeeding: no exception list
RECURSIVE SeqBlockAll(_, _)
SeqBlockAll(users, uids) ==
    IF uids = << >> THEN users
    ELSE SeqBlockAll(MarkBlocked(users, Head(uids)), Tail(uids))

\* new.py process_all_comments (297-364)
SeqPass(lv, words, mp, ledger) ==
    LET cs == SeqTopFrom(TopLevel(lv), 1, mp, << >>)
        subs == SeqSubComments(lv, cs)
        st == SeqDetect(words, cs \o subs,
                        [users |-> ledger, removals |-> << >>,
                         blocks |-> << >>, raised |-> FALSE])
    IN  IF st.raised
        THEN [users |-> st.users, removed |-> {}, blocked |-> {}]
        ELSE [users |-> SeqBlockAll(st.users, st.blocks),
              removed |-> Range(st.removals),
              blocked |-> Range(st.blocks)]

CountsOf(users) ==
    { << users[k].uid, users[k].violation_count >> : k \in 1 .. Len(users) }

\* the first pass of the concurrent program is through its block loop and
\* nothing has failed in it
CleanFirstPass ==
    /\ npass = 1
    /\ pc = "block"
    /\ blacklist_queue = << >>
    /\ pass_status = "saved"
    /\ \A t \in 1 .. Len(sub_tasks) : sub_tasks[t].state = "done"
    /\ Range(delete_calls) \cap live = {}
    /\ block_calls = blocked

\* C27: what a pass of the sequential variant yields on the video, the
\* words, max_pages and the ledger the concurrent program started with -
\* the counts per user, the comments it calls the removal for, the users it
\* calls the block for - is what the concurrent pass yields.
C27_SequentialYieldsTheSame ==
    CleanFirstPass =>
        LET seq == SeqPass(live \cup Range(delete_calls), violation_words,
                           max_pages, at_start.users)
        IN  /\ CountsOf(seq.users) = CountsOf(violation_users)
            /\ seq.removed = Range(delete_calls)
            /\ seq.blocked = block_calls

====
